---- MODULE Spec2Model ----
(***************************************************************************)
(* FreshRSS Google Reader API client (lib/client.py): the session state    *)
(* of one FreshRSSClient instance, the HTTP requests each method sends     *)
(* and what each method returns or raises, for every answer of the server. *)
(*                                                                         *)
(* A text is a sequence of one-character strings; an optional value is a   *)
(* sequence of length 0 (Python's None) or 1.  An action is the code that  *)
(* runs between two awaits: it takes the answer to the pending request,    *)
(* runs the method up to its next request and sends that request, or ends  *)
(* the call.                                                               *)
(***************************************************************************)
EXTENDS Integers, Sequences, FiniteSets, TLC

\* ------------------------------------------------------------------ bounds

\* calls made on one client instance
MaxCalls == 2
\* largest limit passed to get_unread_articles
MaxLimit == 201
\* largest article-ID list passed to _edit_tag
MaxIds == 2
\* endpoint operations running concurrently on one client instance
MaxTasks == 2
\* scope entries, scope exits and requests in the life of one client instance
MaxEvents == 6
\* entries in an article's canonical or alternate list
MaxLinks == 2
\* coroutines of fetcher.py running concurrently
MaxFetches == 3
\* unread articles handed to the digest
MaxArticles == 3

\* the per-request cap of get_unread_articles: min(remaining, 100)
PageCap == 100

\* ------------------------------------------------------------------ values

None == <<>>
Some(x) == <<x>>

Min(a, b) == IF a < b THEN a ELSE b

Whitespace == {" ", "\t", "\n", "\r"}

RECURSIVE LStrip(_)
LStrip(s) == IF s # <<>> /\ Head(s) \in Whitespace THEN LStrip(Tail(s)) ELSE s

RECURSIVE RStrip(_)
RStrip(s) ==
    IF s # <<>> /\ s[Len(s)] \in Whitespace THEN RStrip(SubSeq(s, 1, Len(s) - 1)) ELSE s

\* str.strip()
Strip(s) == RStrip(LStrip(s))

\* index of the first occurrence of character c in s, 0 when there is none
RECURSIVE Find(_, _, _)
Find(s, c, i) ==
    IF i > Len(s) THEN 0 ELSE IF s[i] = c THEN i ELSE Find(s, c, i + 1)

\* str.split(sep): the pieces between the occurrences of the character sep
RECURSIVE Split(_, _)
Split(s, sep) ==
    LET i == Find(s, sep, 1)
    IN  IF i = 0 THEN <<s>>
        ELSE <<SubSeq(s, 1, i - 1)>> \o Split(SubSeq(s, i + 1, Len(s)), sep)

\* the string "Auth"
AuthKey == <<"A", "u", "t", "h">>

RECURSIVE AuthDataSplitAll(_, _, _)
AuthDataSplitAll(lines, key, acc) ==
    IF lines = <<>> THEN acc
    ELSE LET line == Head(lines)
             i == Find(line, "=", 1)
             rest == SubSeq(line, i + 1, Len(line))
             j == Find(rest, "=", 1)
         IN  IF i # 0 /\ SubSeq(line, 1, i - 1) = key
             THEN AuthDataSplitAll(Tail(lines), key,
                      Some(IF j = 0 THEN rest ELSE SubSeq(rest, 1, j - 1)))
             ELSE AuthDataSplitAll(Tail(lines), key, acc)

\* authenticate, lines 223-227: the value auth_data ends with under `key`
\* (a later line overwrites an earlier one), None when no line sets it
RECURSIVE AuthData(_, _, _)
AuthData(lines, key, acc) ==
    IF lines = <<>> THEN acc
    ELSE LET line == Head(lines)
             i == Find(line, "=", 1)
         IN  IF i # 0 /\ SubSeq(line, 1, i - 1) = key
             THEN AuthData(Tail(lines), key, Some(SubSeq(line, i + 1, Len(line))))
             ELSE AuthData(Tail(lines), key, acc)

\* authenticate, lines 222-230: the Auth token of a login body, None if absent
ParseAuth(body) == AuthData(Split(Strip(body), "\n"), AuthKey, None)

\* truthiness of an optional string (`if continuation:`, `if add_tag:`,
\* `if self._auth_token:`): None and the empty string are falsy
Truthy(o) == o # None /\ o[1] # <<>>

STATE_READ ==
    <<"u","s","e","r","/","-","/","s","t","a","t","e","/","c","o","m",".",
      "g","o","o","g","l","e","/","r","e","a","d">>
STATE_STARRED ==
    <<"u","s","e","r","/","-","/","s","t","a","t","e","/","c","o","m",".",
      "g","o","o","g","l","e","/","s","t","a","r","r","e","d">>
STATE_READING_LIST ==
    <<"u","s","e","r","/","-","/","s","t","a","t","e","/","c","o","m",".",
      "g","o","o","g","l","e","/","r","e","a","d","i","n","g","-","l","i","s","t">>

\* the literal the edit-tag endpoint answers on success
OK == <<"O", "K">>

\* ------------------------------------------------------------------ server

Status2xx == {200}
StatusNot2xx == {302, 401, 403, 500}

\* an HTTP exchange ends with a response or with a transport failure
\* (httpx.RequestError: DNS, connection refused, timeout); the body of a
\* failure is not read by the client
Responses(bodies) ==
    LET any == CHOOSE b \in bodies : TRUE
    IN  [kind : {"response"}, status : Status2xx, body : bodies]
            \cup [kind : {"response"}, status : StatusNot2xx, body : {any}]
            \cup [kind : {"transport"}, status : {0}, body : {any}]

IsErrorStatusNever(r) == FALSE

\* response.raise_for_status() raises HTTPStatusError
IsErrorStatus(r) == r.kind = "response" /\ r.status \notin Status2xx

\* bodies the login endpoint may answer with
LoginBodies ==
    { <<"S","I","D","=","a","\n","L","S","I","D","=","b","\n",
        "A","u","t","h","=","t","o","k","1","2","3","\n">>,
      <<"S","I","D","=","a","\n","L","S","I","D","=","b","\n">>,
      <<"A","u","t","h","=">>,
      <<"A","u","t","h","=","a","=","b">>,
      <<"A","u","t","h","=","x","\n","A","u","t","h","=","y">>,
      <<"A","u","t","h">>,
      <<>> }

Digits == <<"1", "2", "3", "4", "5", "6", "7", "8", "9">>

\* the k-th action token the server issues: it never issues one twice
Tok(k) == <<"t", Digits[k]>>

\* bodies of the token endpoint for its k-th token
TokenBodies(k) == { Tok(k), Tok(k) \o <<"\n">>, <<" ">> \o Tok(k) \o <<"\r", "\n">> }

\* bodies of the edit-tag endpoint
EditTagBodies ==
    { OK, OK \o <<"\n">>, <<" ">> \o OK \o <<" ">>, <<"o", "k">>,
      OK \o OK, <<"O", " ", "K">>, <<>> }

\* the continuation field of a stream page: null, "" or a token
Continuations == {None, Some(<<>>), Some(<<"c", "1">>), Some(<<"c", "2">>)}

\* articles base+1 .. base+k
Ids(base, k) == [i \in 1..k |-> base + i]

\* how many items the server may put on a page when n were asked for
ItemCounts(n) == {k \in {0, 1, n - 1, n, n + 1} : k >= 0}

\* JSON bodies of the stream-contents endpoint, one of them malformed
Pages(n, base) ==
    [valid : {TRUE}, items : {Ids(base, k) : k \in ItemCounts(n)},
     continuation : Continuations]
        \cup {[valid |-> FALSE, items |-> <<>>, continuation |-> None]}

\* JSON bodies of the subscription-list endpoint
SubscriptionBodies ==
    [valid : {TRUE}, subscriptions : {<<>>, <<"feed/2", "feed/1">>}]
        \cup {[valid |-> FALSE, subscriptions |-> <<>>]}

\* JSON bodies of the unread-count endpoint
UnreadCountBodies ==
    [valid : {TRUE},
     unreadcounts : { <<>>,
                      <<[id |-> "feed/1", count |-> 1]>>,
                      <<[id |-> "feed/1", count |-> 1], [id |-> "feed/1", count |-> 2]>> }]
        \cup {[valid |-> FALSE, unreadcounts |-> <<>>]}

\* JSON bodies of the items-contents endpoint: items missing, empty or not
ItemBodies ==
    [valid : {TRUE}, items : {None, Some(<<>>), Some(<<7>>), Some(<<7, 8>>)}]
        \cup {[valid |-> FALSE, items |-> None]}

\* ------------------------------------------------------------------ state

VARIABLES
    auth_token,     \* self._auth_token
    action_token,   \* self._action_token
    pc,             \* "idle", "done", or the request the running call awaits
    op,             \* the method that is running ("none" when idle)
    args,           \* its arguments
    articles,       \* get_unread_articles: articles
    continuation,   \* get_unread_articles: continuation
    result,         \* what the call returned or raised
    log,            \* the requests the call has sent, in order
    answers,        \* the answers it has received, in order
    start,          \* the session state when the call began
    issued,         \* action tokens the server has issued
    calls,          \* calls started on this client
    tasks,          \* concurrent use: each task's method, position and outcome
    transport,      \* self._client, the transports made, and the scope
    article,        \* an Article built from a stream item, and its link once read
    keyring,        \* the keychain entries of the service, and the last credentials call
    fetcher,        \* fetcher.py: _playwright, _browser and the coroutines using them
    digest,         \* run.py: the digest loop over the unread articles
    setup           \* run.py: cmd_setup, its inputs, its test connection and what it wrote

vars == <<auth_token, action_token, pc, op, args, articles, continuation,
          result, log, answers, start, issued, calls, tasks, transport, article, keyring, fetcher, digest, setup>>

NoResult == [kind |-> "none"]
Return(v) == [kind |-> "return", value |-> v]
Raise(e, status) == [kind |-> "raise", error |-> e, status_code |-> status]

Session == [auth_token |-> auth_token, action_token |-> action_token, issued |-> issued]

\* a task that has not called its method yet
IdleTask == [pc |-> "idle", op |-> "none", result |-> NoResult]

\* __init__, line 168: no transport yet, none made, outside every scope
NoTransport == [client |-> None, open |-> {}, made |-> 0, scope |-> 0, events |-> <<>>]

\* Article, lines 82-83: both link lists default to the empty list
DefaultArticle == [canonical |-> <<>>, alternate |-> <<>>, link |-> NoResult]

\* the keychain before setup_credentials has run: no entry of the service
EmptyKeyring == [store |-> <<>>, before |-> <<>>, op |-> "none", absent_fails |-> FALSE,
                 result |-> NoResult]

\* a coroutine of fetcher.py that has not been called yet
IdleFetch == [pc |-> "idle", op |-> "none", got |-> None]

\* fetcher.py, lines 10-11: no Playwright, no browser
NoBrowser == [playwright |-> None, browser |-> None, started |-> 0, made |-> 0,
              launched |-> {}, handed |-> {},
              tasks |-> [t \in 1..MaxFetches |-> IdleFetch]]

\* run.py: the digest command has not got its articles yet
NoDigest == [pc |-> "idle", links |-> <<>>, dynamic |-> FALSE, stats |-> None,
             result |-> <<>>, count |-> 0]

\* run.py: cmd_setup (without --clear) is about to prompt for the API URL
NoSetup == [pc |-> "api_url", entered |-> <<>>, client |-> None, login |-> None,
            subscriptions |-> None, saved |-> None, written |-> {}, code |-> "none"]

\* FreshRSSClient.__init__
Init ==
    /\ auth_token = None
    /\ action_token = None
    /\ pc = "idle"
    /\ op = "none"
    /\ args = <<>>
    /\ articles = <<>>
    /\ continuation = None
    /\ result = NoResult
    /\ log = <<>>
    /\ answers = <<>>
    /\ start = [auth_token |-> None, action_token |-> None, issued |-> 0]
    /\ issued = 0
    /\ calls = 0
    /\ tasks = [t \in 1..MaxTasks |-> IdleTask]
    /\ transport = NoTransport
    /\ article = DefaultArticle
    /\ keyring = EmptyKeyring
    /\ fetcher = NoBrowser
    /\ digest = NoDigest
    /\ setup = NoSetup

\* ---------------------------------------------------------------- requests

\* _get_headers: the Authorization header, absent for a falsy token
GetHeaders(tok) ==
    IF Truthy(tok)
    THEN Some(<<"G","o","o","g","l","e","L","o","g","i","n"," ","a","u","t","h","=">> \o tok[1])
    ELSE None

\* authenticate, lines 206-215
LoginRequest == [ep |-> "accounts/ClientLogin", method |-> "POST"]

\* get_token, lines 258-261
TokenRequest(tok) ==
    [ep |-> "reader/api/0/token", method |-> "GET", auth |-> GetHeaders(tok)]

\* get_subscriptions, lines 291-298
SubscriptionsRequest(tok) ==
    [ep |-> "reader/api/0/subscription/list", method |-> "GET", auth |-> GetHeaders(tok)]

\* get_unread_counts, lines 321-328
UnreadCountsRequest(tok) ==
    [ep |-> "reader/api/0/unread-count", method |-> "GET", auth |-> GetHeaders(tok)]

\* get_stream_contents, lines 368-385: c and xt are sent only when truthy
StreamRequestWithoutContinuation(tok, stream_id, count, cont, exclude_target) ==
    [ep |-> "reader/api/0/stream/contents", method |-> "GET",
     stream |-> stream_id, n |-> count,
     c |-> None,
     xt |-> IF Truthy(exclude_target) THEN exclude_target ELSE None,
     auth |-> GetHeaders(tok)]

StreamRequest(tok, stream_id, count, cont, exclude_target) ==
    [ep |-> "reader/api/0/stream/contents", method |-> "GET",
     stream |-> stream_id, n |-> count,
     c |-> IF Truthy(cont) THEN cont ELSE None,
     xt |-> IF Truthy(exclude_target) THEN exclude_target ELSE None,
     auth |-> GetHeaders(tok)]

\* get_article_by_id, lines 450-457
ArticleRequest(tok, article_id) ==
    [ep |-> "reader/api/0/stream/items/contents", method |-> "POST",
     i |-> article_id, auth |-> GetHeaders(tok)]

\* _edit_tag, lines 527-533: T first, one i per ID, then a, then r
FormDataTokenLast(token, article_ids, add_tag, remove_tag) ==
    [k \in 1..Len(article_ids) |-> <<"i", article_ids[k]>>]
        \o (IF Truthy(add_tag) THEN <<<<"a", add_tag[1]>>>> ELSE <<>>)
        \o (IF Truthy(remove_tag) THEN <<<<"r", remove_tag[1]>>>> ELSE <<>>)
        \o <<<<"T", token>>>>

FormData(token, article_ids, add_tag, remove_tag) ==
    <<<<"T", token>>>>
        \o [k \in 1..Len(article_ids) |-> <<"i", article_ids[k]>>]
        \o (IF Truthy(add_tag) THEN <<<<"a", add_tag[1]>>>> ELSE <<>>)
        \o (IF Truthy(remove_tag) THEN <<<<"r", remove_tag[1]>>>> ELSE <<>>)

\* _edit_tag, lines 525-542
EditTagRequest(tok, form_data) ==
    [ep |-> "reader/api/0/edit-tag", method |-> "POST",
     form |-> form_data, auth |-> GetHeaders(tok)]

EnsureActionTokenCached(old, fetched) == IF old # None THEN old ELSE fetched

\* _ensure_action_token, lines 273-274: the token it hands to _edit_tag is
\* the one get_token has just stored; `old` is the field's value before
EnsureActionToken(old, fetched) == fetched

\* ------------------------------------------------------- get_unread_articles

\* line 413
StreamOf(feed_id) == IF Truthy(feed_id) THEN feed_id[1] ELSE STATE_READING_LIST

\* line 419: the loop condition
LoopCondition(arts, limit) == Len(arts) < limit

BatchSizeUncapped(arts, limit) == limit - Len(arts)

\* lines 420-421
BatchSize(arts, limit) == Min(limit - Len(arts), PageCap)

ExtendInFront(arts, items) == items \o arts

\* line 430
Extend(arts, items) == arts \o items

EndOfStreamTokenOnly(stream, batch_size) == ~Truthy(stream.continuation)

EndOfStreamEmptyOnly(stream, batch_size) ==
    ~Truthy(stream.continuation) \/ Len(stream.items) = 0

EndOfStreamShortOnly(stream, batch_size) == Len(stream.items) < batch_size

EndOfStreamNotLonger(stream, batch_size) ==
    ~Truthy(stream.continuation) \/ Len(stream.items) <= batch_size

\* line 432: the page ends the stream
EndOfStream(stream, batch_size) ==
    ~Truthy(stream.continuation) \/ Len(stream.items) < batch_size

TruncateNothing(arts, limit) == arts

\* line 437: articles[:limit]
Truncate(arts, limit) ==
    IF limit >= 0 THEN SubSeq(arts, 1, Min(limit, Len(arts)))
    ELSE SubSeq(arts, 1, Len(arts) + limit)

\* the items of the well-formed pages among the answers, in order
RECURSIVE Received(_)
Received(ans) ==
    IF ans = <<>> THEN <<>>
    ELSE LET r == ans[Len(ans)]
             front == Received(SubSeq(ans, 1, Len(ans) - 1))
         IN  IF r.for = "stream" /\ r.kind = "response" /\ ~IsErrorStatus(r) /\ r.body.valid
             THEN front \o r.body.items
             ELSE front

\* ------------------------------------------------------------------- calls

EditOps == {"mark_as_read", "mark_as_starred", "_edit_tag"}

\* the request a method awaits first once the client is authenticated
EndpointPc(o) ==
    CASE o = "get_token" -> "token"
      [] o \in EditOps -> "token"
      [] o = "get_subscriptions" -> "subscriptions"
      [] o = "get_unread_counts" -> "unread_counts"
      [] o = "get_stream_contents" -> "stream"
      [] o = "get_unread_articles" -> "stream"
      [] o = "get_article_by_id" -> "article"

\* the first request of method o with arguments a after _ensure_authenticated
FirstRequest(o, a, tok) ==
    CASE o = "get_token" -> TokenRequest(tok)
      [] o \in EditOps -> TokenRequest(tok)
      [] o = "get_subscriptions" -> SubscriptionsRequest(tok)
      [] o = "get_unread_counts" -> UnreadCountsRequest(tok)
      [] o = "get_stream_contents" ->
            StreamRequest(tok, a.stream_id, a.count, a.continuation, a.exclude_target)
      [] o = "get_unread_articles" ->
            StreamRequest(tok, StreamOf(a.feed_id), BatchSize(<<>>, a.limit),
                          None, Some(STATE_READ))
      [] o = "get_article_by_id" -> ArticleRequest(tok, a.article_id)

\* a call begins
Begin(o, a) ==
    /\ pc = "idle"
    /\ calls < MaxCalls
    /\ calls' = calls + 1
    /\ op' = o
    /\ args' = a
    /\ start' = Session
    /\ answers' = <<>>
    /\ articles' = <<>>
    /\ continuation' = None
    /\ UNCHANGED <<tasks, transport, article, keyring, fetcher, digest, setup>>

\* the call sends request q and awaits its answer at p
Await(p, q) ==
    /\ pc' = p
    /\ log' = Append(log, q)
    /\ result' = NoResult

\* the call ends with outcome r
Finish(r) ==
    /\ pc' = "done"
    /\ log' = log
    /\ result' = r

NeedsLoginAlways(tok) == TRUE

NeedsLoginFalsy(tok) == ~Truthy(tok)

\* _ensure_authenticated, line 237: it authenticates only when no token is
\* cached (`is None`: an empty token counts as cached)
NeedsLogin(tok) == tok = None

\* _ensure_authenticated, lines 237-238, then the method's first request
Enter(o, a) ==
    IF NeedsLogin(auth_token)
    THEN Await("login", LoginRequest)
    ELSE Await(EndpointPc(o), FirstRequest(o, a, auth_token))

\* authenticate(): sends the login request, whatever is cached
CallAuthenticate ==
    /\ Begin("authenticate", <<>>)
    /\ Await("login", LoginRequest)
    /\ UNCHANGED <<auth_token, action_token, issued>>

CallGetToken ==
    /\ Begin("get_token", <<>>)
    /\ Enter("get_token", <<>>)
    /\ UNCHANGED <<auth_token, action_token, issued>>

CallGetSubscriptions ==
    /\ Begin("get_subscriptions", <<>>)
    /\ Enter("get_subscriptions", <<>>)
    /\ UNCHANGED <<auth_token, action_token, issued>>

CallGetUnreadCounts ==
    /\ Begin("get_unread_counts", <<>>)
    /\ Enter("get_unread_counts", <<>>)
    /\ UNCHANGED <<auth_token, action_token, issued>>

Feeds == {None, Some(<<>>), Some(<<"f","e","e","d","/","1">>)}

\* limits around zero, around one full page, around two, and the largest
Limits ==
    (-1..3) \cup {PageCap - 1, PageCap, PageCap + 1, 2 * PageCap - 1, 2 * PageCap, MaxLimit}

CallGetStreamContents ==
    \E a \in [stream_id : {STATE_READING_LIST}, count : {1, PageCap},
              continuation : {None, Some(<<"c", "1">>)},
              exclude_target : {None, Some(STATE_READ)}] :
        /\ Begin("get_stream_contents", a)
        /\ Enter("get_stream_contents", a)
        /\ UNCHANGED <<auth_token, action_token, issued>>

\* get_unread_articles, lines 413-437, up to its first request
CallGetUnreadArticles ==
    \E a \in [limit : Limits, feed_id : Feeds] :
        /\ Begin("get_unread_articles", a)
        /\ IF LoopCondition(<<>>, a.limit)
           THEN Enter("get_unread_articles", a)
           ELSE Finish(Return(Truncate(<<>>, a.limit)))
        /\ UNCHANGED <<auth_token, action_token, issued>>

CallGetArticleById ==
    \E a \in [article_id : {<<"1","2","3">>}] :
        /\ Begin("get_article_by_id", a)
        /\ Enter("get_article_by_id", a)
        /\ UNCHANGED <<auth_token, action_token, issued>>

ArticleIds == {<<"1","2","3">>, <<"4","5","6">>}

RECURSIVE SeqsUpTo(_, _)
SeqsUpTo(S, n) ==
    IF n = 0 THEN {<<>>}
    ELSE LET shorter == SeqsUpTo(S, n - 1)
         IN  shorter \cup {Append(s, x) : s \in shorter, x \in S}

IdLists == SeqsUpTo(ArticleIds, MaxIds)

Tags == {None, Some(<<>>), Some(STATE_READ)}

IsNoOpNever(article_ids) == FALSE

\* _edit_tag, line 519: `if not article_ids`
IsNoOp(article_ids) == article_ids = <<>>

\* _edit_tag, lines 519-523, up to its first request
EditTag(o, a) ==
    /\ Begin(o, a)
    /\ IF IsNoOp(a.article_ids)
       THEN Finish(Return(TRUE))
       ELSE Enter(o, a)
    /\ UNCHANGED <<auth_token, action_token, issued>>

\* mark_as_read, line 484
CallMarkAsRead ==
    \E ids \in IdLists :
        EditTag("mark_as_read",
                [article_ids |-> ids, add_tag |-> Some(STATE_READ), remove_tag |-> None])

\* mark_as_starred, line 498
CallMarkAsStarred ==
    \E ids \in IdLists :
        EditTag("mark_as_starred",
                [article_ids |-> ids, add_tag |-> Some(STATE_STARRED), remove_tag |-> None])

CallEditTag ==
    \E a \in [article_ids : IdLists, add_tag : Tags, remove_tag : Tags] :
        EditTag("_edit_tag", a)

\* --------------------------------------------------------------- responses

\* the answer r to the request awaited at pc is received
Answer(r) == answers' = Append(answers, [for |-> pc, kind |-> r.kind,
                                         status |-> r.status, body |-> r.body])

LoginErrorAPI(r) ==
    IF r.kind = "transport" THEN Some(Raise("AuthenticationError", None))
    ELSE IF IsErrorStatus(r) THEN Some(Raise("APIError", Some(r.status)))
    ELSE IF ParseAuth(r.body) = None THEN Some(Raise("AuthenticationError", None))
    ELSE None

\* authenticate, lines 216-230: what it raises on answer r, None when it
\* goes on to store the token
LoginError(r) ==
    IF r.kind = "transport" THEN Some(Raise("AuthenticationError", None))
    ELSE IF IsErrorStatus(r) THEN Some(Raise("AuthenticationError", None))
    ELSE IF ParseAuth(r.body) = None THEN Some(Raise("AuthenticationError", None))
    ELSE None

TokenAfterLoginCleared(old, r) ==
    IF LoginError(r) # None THEN None ELSE ParseAuth(r.body)

\* authenticate, lines 216-232: self._auth_token once the login request is
\* answered; line 232 is reached only when nothing was raised
TokenAfterLogin(old, r) ==
    IF LoginError(r) # None THEN old ELSE ParseAuth(r.body)

\* authenticate, lines 216-233, once the login request is answered; then, in
\* a method that called it through _ensure_authenticated, the method's first
\* request
LoginResponse ==
    /\ pc = "login"
    /\ \E r \in Responses(LoginBodies) :
        /\ Answer(r)
        /\ auth_token' = TokenAfterLogin(auth_token, r)
        /\ IF LoginError(r) # None
           THEN Finish(LoginError(r)[1])
           ELSE IF op = "authenticate"
           THEN Finish(Return(ParseAuth(r.body)[1]))
           ELSE Await(EndpointPc(op), FirstRequest(op, args, ParseAuth(r.body)))
    /\ UNCHANGED <<action_token, op, args, articles, continuation, start, issued, calls>>
    /\ UNCHANGED <<tasks, transport, article, keyring, fetcher, digest, setup>>

\* get_token, lines 262-269, once the token request is answered; then, in
\* _edit_tag, lines 523-542
TokenResponse ==
    /\ pc = "token"
    /\ \E r \in Responses(TokenBodies(issued + 1)) :
        /\ Answer(r)
        /\ IF r.kind = "transport"
           THEN /\ Finish(Raise("RequestError", None))
                /\ UNCHANGED <<action_token, issued>>
           ELSE IF IsErrorStatus(r)
           THEN /\ Finish(Raise("APIError", Some(r.status)))
                /\ UNCHANGED <<action_token, issued>>
           ELSE /\ issued' = issued + 1
                /\ action_token' = Some(Strip(r.body))
                /\ IF op = "get_token"
                   THEN Finish(Return(Strip(r.body)))
                   ELSE Await("edit-tag",
                              EditTagRequest(auth_token,
                                  FormData(EnsureActionToken(action_token, Some(Strip(r.body)))[1],
                                           args.article_ids, args.add_tag, args.remove_tag)))
    /\ UNCHANGED <<auth_token, op, args, articles, continuation, start, calls>>
    /\ UNCHANGED <<tasks, transport, article, keyring, fetcher, digest, setup>>

EditTagResultExact(r) ==
    IF r.kind = "transport" THEN Raise("RequestError", None)
    ELSE IF IsErrorStatus(r) THEN Raise("APIError", Some(r.status))
    ELSE Return(r.body = OK)

\* _edit_tag, lines 543-550, once the edit-tag request is answered
EditTagResult(r) ==
    IF r.kind = "transport" THEN Raise("RequestError", None)
    ELSE IF IsErrorStatus(r) THEN Raise("APIError", Some(r.status))
    ELSE Return(Strip(r.body) = OK)

EditTagResponse ==
    /\ pc = "edit-tag"
    /\ \E r \in Responses(EditTagBodies) :
        /\ Answer(r)
        /\ Finish(EditTagResult(r))
    /\ UNCHANGED <<auth_token, action_token, op, args, articles, continuation,
                   start, issued, calls>>
    /\ UNCHANGED <<tasks, transport, article, keyring, fetcher, digest, setup>>

SubscriptionsResultAuthError(r) ==
    IF r.kind = "transport" THEN Raise("RequestError", None)
    ELSE IF IsErrorStatus(r) /\ r.status \in {401, 403}
         THEN Raise("AuthenticationError", None)
    ELSE IF IsErrorStatus(r) THEN Raise("APIError", Some(r.status))
    ELSE IF ~r.body.valid THEN Raise("ValidationError", None)
    ELSE Return(r.body.subscriptions)

\* get_subscriptions, lines 299-308
SubscriptionsResult(r) ==
    IF r.kind = "transport" THEN Raise("RequestError", None)
    ELSE IF IsErrorStatus(r) THEN Raise("APIError", Some(r.status))
    ELSE IF ~r.body.valid THEN Raise("ValidationError", None)
    ELSE Return(r.body.subscriptions)

SubscriptionsResponse ==
    /\ pc = "subscriptions"
    /\ \E r \in Responses(SubscriptionBodies) :
        /\ Answer(r)
        /\ Finish(SubscriptionsResult(r))
    /\ UNCHANGED <<auth_token, action_token, op, args, articles, continuation,
                   start, issued, calls>>
    /\ UNCHANGED <<tasks, transport, article, keyring, fetcher, digest, setup>>

\* line 338: the dict of a list of unread counts, a later entry overwriting
\* an earlier one with the same id
RECURSIVE CountsDict(_)
CountsDict(l) ==
    IF l = <<>> THEN <<>>
    ELSE LET front == CountsDict(SubSeq(l, 1, Len(l) - 1))
             last == l[Len(l)]
         IN  [k \in DOMAIN front \cup {last.id} |->
                 IF k = last.id THEN last.count ELSE front[k]]

UnreadCountsResultSwallow(r) ==
    IF r.kind = "transport" THEN Raise("RequestError", None)
    ELSE IF IsErrorStatus(r) THEN Return(<<>>)
    ELSE IF ~r.body.valid THEN Raise("ValidationError", None)
    ELSE Return(CountsDict(r.body.unreadcounts))

\* get_unread_counts, lines 329-338
UnreadCountsResult(r) ==
    IF r.kind = "transport" THEN Raise("RequestError", None)
    ELSE IF IsErrorStatus(r) THEN Raise("APIError", Some(r.status))
    ELSE IF ~r.body.valid THEN Raise("ValidationError", None)
    ELSE Return(CountsDict(r.body.unreadcounts))

UnreadCountsResponse ==
    /\ pc = "unread_counts"
    /\ \E r \in Responses(UnreadCountBodies) :
        /\ Answer(r)
        /\ Finish(UnreadCountsResult(r))
    /\ UNCHANGED <<auth_token, action_token, op, args, articles, continuation,
                   start, issued, calls>>
    /\ UNCHANGED <<tasks, transport, article, keyring, fetcher, digest, setup>>

ArticleResultRaise(r) ==
    IF r.kind = "transport" THEN Raise("RequestError", None)
    ELSE IF IsErrorStatus(r) THEN Raise("APIError", Some(r.status))
    ELSE IF ~r.body.valid THEN Raise("ValidationError", None)
    ELSE IF Truthy(r.body.items) THEN Return(Some(r.body.items[1][1]))
    ELSE Return(None)

\* get_article_by_id, lines 458-466
ArticleResult(r) ==
    IF r.kind = "transport" THEN Raise("RequestError", None)
    ELSE IF IsErrorStatus(r) THEN Return(None)
    ELSE IF ~r.body.valid THEN Raise("ValidationError", None)
    ELSE IF Truthy(r.body.items) THEN Return(Some(r.body.items[1][1]))
    ELSE Return(None)

ArticleResponse ==
    /\ pc = "article"
    /\ \E r \in Responses(ItemBodies) :
        /\ Answer(r)
        /\ Finish(ArticleResult(r))
    /\ UNCHANGED <<auth_token, action_token, op, args, articles, continuation,
                   start, issued, calls>>
    /\ UNCHANGED <<tasks, transport, article, keyring, fetcher, digest, setup>>

\* get_stream_contents, lines 386-394: what it raises, None when it returns
StreamError(r) ==
    IF r.kind = "transport" THEN Some(Raise("RequestError", None))
    ELSE IF IsErrorStatus(r) THEN Some(Raise("APIError", Some(r.status)))
    ELSE IF ~r.body.valid THEN Some(Raise("ValidationError", None))
    ELSE None

\* get_stream_contents once the stream request is answered; then, in
\* get_unread_articles, lines 430-437 and 419-428: the rest of this turn of
\* the loop and the next turn up to its request
StreamResponse ==
    /\ pc = "stream"
    /\ \E r \in Responses(Pages(log[Len(log)].n, Len(Received(answers)))) :
        /\ Answer(r)
        /\ IF StreamError(r) # None
           THEN /\ Finish(StreamError(r)[1])
                /\ UNCHANGED <<articles, continuation>>
           ELSE IF op = "get_stream_contents"
           THEN /\ Finish(Return([items |-> r.body.items,
                                  continuation |-> r.body.continuation]))
                /\ UNCHANGED <<articles, continuation>>
           ELSE LET batch_size == BatchSize(articles, args.limit)
                    extended == Extend(articles, r.body.items)
                IN  /\ articles' = extended
                    /\ IF EndOfStream(r.body, batch_size)
                       THEN /\ Finish(Return(Truncate(extended, args.limit)))
                            /\ UNCHANGED continuation
                       ELSE /\ continuation' = r.body.continuation
                            /\ IF LoopCondition(extended, args.limit)
                               THEN Await("stream",
                                          StreamRequest(auth_token, StreamOf(args.feed_id),
                                                        BatchSize(extended, args.limit),
                                                        r.body.continuation, Some(STATE_READ)))
                               ELSE Finish(Return(Truncate(extended, args.limit)))
    /\ UNCHANGED <<auth_token, action_token, op, args, start, issued, calls>>
    /\ UNCHANGED <<tasks, transport, article, keyring, fetcher, digest, setup>>

\* the caller takes the outcome; the client is idle again
Done ==
    /\ pc = "done"
    /\ pc' = "idle"
    /\ op' = "none"
    /\ args' = <<>>
    /\ articles' = <<>>
    /\ continuation' = None
    /\ result' = NoResult
    /\ log' = <<>>
    /\ answers' = <<>>
    /\ start' = Session
    /\ UNCHANGED <<auth_token, action_token, issued, calls>>
    /\ UNCHANGED <<tasks, transport, article, keyring, fetcher, digest, setup>>

Next ==
    \/ CallAuthenticate
    \/ CallGetToken
    \/ CallGetSubscriptions
    \/ CallGetUnreadCounts
    \/ CallGetStreamContents
    \/ CallGetUnreadArticles
    \/ CallGetArticleById
    \/ CallMarkAsRead
    \/ CallMarkAsStarred
    \/ CallEditTag
    \/ LoginResponse
    \/ TokenResponse
    \/ EditTagResponse
    \/ SubscriptionsResponse
    \/ UnreadCountsResponse
    \/ ArticleResponse
    \/ StreamResponse
    \/ Done

Spec == Init /\ [][Next]_vars

\* ---------------------------------------------------------- concurrent use

\* Several endpoint methods run as asyncio tasks on one client instance. A
\* task runs without interruption from one await to the next; the tasks
\* share self._auth_token and the server, which sees their requests in the
\* order of log.

\* the methods the tasks call
TaskOps == {"get_subscriptions", "get_unread_counts"}

\* what the single-call variables do while tasks run
CallVars == <<action_token, pc, op, args, articles, continuation, result,
              answers, start, issued, calls, transport, article, keyring, fetcher, digest, setup>>

\* task t calls method o: _ensure_authenticated, lines 237-238, up to the
\* await of the login request or of the method's own request
TaskCall(t) ==
    /\ tasks[t].pc = "idle"
    /\ \E o \in TaskOps :
        IF NeedsLogin(auth_token)
        THEN /\ log' = Append(log, LoginRequest)
             /\ tasks' = [tasks EXCEPT ![t] = [pc |-> "login", op |-> o, result |-> NoResult]]
        ELSE /\ log' = Append(log, FirstRequest(o, <<>>, auth_token))
             /\ tasks' = [tasks EXCEPT ![t] = [pc |-> EndpointPc(o), op |-> o,
                                               result |-> NoResult]]
    /\ UNCHANGED auth_token
    /\ UNCHANGED CallVars

\* authenticate, lines 216-233, in task t, then the task's own request
TaskLoginResponse(t) ==
    /\ tasks[t].pc = "login"
    /\ \E r \in Responses(LoginBodies) :
        IF LoginError(r) # None
        THEN /\ tasks' = [tasks EXCEPT ![t].pc = "done", ![t].result = LoginError(r)[1]]
             /\ UNCHANGED <<auth_token, log>>
        ELSE /\ auth_token' = ParseAuth(r.body)
             /\ log' = Append(log, FirstRequest(tasks[t].op, <<>>, ParseAuth(r.body)))
             /\ tasks' = [tasks EXCEPT ![t].pc = EndpointPc(tasks[t].op)]
    /\ UNCHANGED CallVars

\* get_subscriptions, lines 299-308, in task t
TaskSubscriptionsResponse(t) ==
    /\ tasks[t].pc = "subscriptions"
    /\ \E r \in Responses(SubscriptionBodies) :
        tasks' = [tasks EXCEPT ![t].pc = "done", ![t].result = SubscriptionsResult(r)]
    /\ UNCHANGED <<auth_token, log>>
    /\ UNCHANGED CallVars

\* get_unread_counts, lines 329-338, in task t
TaskUnreadCountsResponse(t) ==
    /\ tasks[t].pc = "unread_counts"
    /\ \E r \in Responses(UnreadCountBodies) :
        tasks' = [tasks EXCEPT ![t].pc = "done", ![t].result = UnreadCountsResult(r)]
    /\ UNCHANGED <<auth_token, log>>
    /\ UNCHANGED CallVars

NextConcurrent ==
    \E t \in 1..MaxTasks :
        \/ TaskCall(t)
        \/ TaskLoginResponse(t)
        \/ TaskSubscriptionsResponse(t)
        \/ TaskUnreadCountsResponse(t)

SpecConcurrent == Init /\ [][NextConcurrent]_vars

\* ------------------------------------------------------ transport lifecycle

\* The caller enters the client's scope (async with), leaves it normally or
\* with an exception, and calls request methods, inside a scope or outside:
\* every method takes its transport from _get_client. Transports are numbered
\* in the order httpx.AsyncClient() made them; open holds those not closed.

\* what the client's other variables do meanwhile
NonTransportVars == <<auth_token, action_token, pc, op, args, articles, continuation,
                      result, log, answers, start, issued, calls, tasks, article, keyring, fetcher, digest, setup>>

\* the event e happened, with self._client = c and the open transports o
Lifecycle(e, c, o, made, scope) ==
    /\ Len(transport.events) < MaxEvents
    /\ transport' = [client |-> c, open |-> o, made |-> made, scope |-> scope,
                     events |-> Append(transport.events, e)]
    /\ UNCHANGED NonTransportVars

\* __aenter__, lines 170-173: a new transport, whatever self._client holds.
\* The caller does not enter a scope it is already in.
AEnter ==
    /\ transport.scope = 0
    /\ LET new == transport.made + 1
       IN  Lifecycle("aenter", Some(new), transport.open \cup {new}, new, 1)

\* __aexit__, lines 175-184, with or without an exception from the body: it
\* closes self._client if there is one
AExit ==
    /\ transport.scope = 1
    /\ \E exc \in BOOLEAN :
        LET e == IF exc THEN "aexit_exception" ELSE "aexit"
        IN  IF transport.client # None
            THEN Lifecycle(e, None, transport.open \ {transport.client[1]},
                           transport.made, 0)
            ELSE Lifecycle(e, None, transport.open, transport.made, 0)

\* _get_client, lines 186-190, called by a request method: a new transport
\* only when self._client is None
GetClient ==
    IF transport.client = None
    THEN LET new == transport.made + 1
         IN  Lifecycle("request", Some(new), transport.open \cup {new}, new,
                       transport.scope)
    ELSE Lifecycle("request", transport.client, transport.open, transport.made,
                   transport.scope)

NextTransport ==
    \/ AEnter
    \/ AExit
    \/ GetClient

SpecTransport == Init /\ [][NextTransport]_vars

\* ------------------------------------------------------------ Article.link

\* An entry of canonical or alternate is a dict; only its href is read, with
\* dict.get: an entry is modelled by its href, None when the key is missing.
Hrefs == {None, Some("https://a.example/1"), Some("https://b.example/2")}

\* the lists of at most n entries
LinkLists(n) == UNION {[1..k -> Hrefs] : k \in 0..n}

NonArticleVars == <<auth_token, action_token, pc, op, args, articles, continuation,
                    result, log, answers, start, issued, calls, tasks, transport,
                    keyring, fetcher, digest, setup>>

LinkCanonicalElseAlternate(a) ==
    IF a.canonical # <<>> /\ a.canonical[1] # None THEN a.canonical[1]
    ELSE IF a.alternate # <<>> THEN a.alternate[1]
    ELSE None

\* Article.link, lines 90-96
Link(a) ==
    IF a.canonical # <<>> THEN a.canonical[1]
    ELSE IF a.alternate # <<>> THEN a.alternate[1]
    ELSE None

\* Article(**item), lines 74-86: an article is built from a stream item
NewArticle ==
    /\ \E c \in LinkLists(MaxLinks), alt \in LinkLists(MaxLinks) :
        article' = [canonical |-> c, alternate |-> alt, link |-> NoResult]
    /\ UNCHANGED NonArticleVars

\* the computed field link is read
ReadLink ==
    /\ article.link = NoResult
    /\ article' = [article EXCEPT !.link = Return(Link(article))]
    /\ UNCHANGED NonArticleVars

NextArticle ==
    \/ NewArticle
    \/ ReadLink

SpecArticle == Init /\ [][NextArticle]_vars

\* ------------------------------------------------------------- credentials

\* credentials.py. The keychain is a function from the keys stored for the
\* service to their values; KEYS is a sequence, so an entry is kept under
\* the index of its key.

\* KEYS, line 13
KEYS == <<"api_url", "username", "password">>

\* values a caller stores
Values == {"v1", "v2"}

NonKeyringVars == <<auth_token, action_token, pc, op, args, articles, continuation,
                    result, log, answers, start, issued, calls, tasks, transport,
                    article, fetcher, digest, setup>>

\* the store without the entry of key i
Without(store, i) == [k \in DOMAIN store \ {i} |-> store[k]]

\* the store with value v under key i
With(store, i, v) == [k \in DOMAIN store \cup {i} |-> IF k = i THEN v ELSE store[k]]

\* _delete_value, lines 163-170: the tool removes the entry and exits 0; for
\* an absent entry it exits non-zero when absent_fails
DeleteValue(store, i, absent_fails) ==
    IF i \in DOMAIN store
    THEN [ok |-> TRUE, store |-> Without(store, i)]
    ELSE [ok |-> ~absent_fails, store |-> store]

\* clear_credentials, lines 207-210: `success and _delete_value(key)` calls
\* _delete_value only while success is still true
RECURSIVE ClearKeys(_, _, _, _)
ClearKeys(store, i, success, absent_fails) ==
    IF i > Len(KEYS) THEN [ok |-> success, store |-> store]
    ELSE IF ~success THEN ClearKeys(store, i + 1, FALSE, absent_fails)
    ELSE LET d == DeleteValue(store, i, absent_fails)
         IN  ClearKeys(d.store, i + 1, d.ok, absent_fails)

\* setup_credentials, lines 194-198: the first n keys are stored, the next
\* _set_value fails (n = 3: none fails) and the rest is not attempted. A
\* failed _macos_set has deleted the old entry (lines 54-58), a failed
\* _linux_set has not.
SetupCredentials ==
    /\ \E vals \in [1..Len(KEYS) -> Values], n \in 0..Len(KEYS), removed \in BOOLEAN :
        LET stored == [k \in DOMAIN keyring.store \cup (1..n) |->
                            IF k \in 1..n THEN vals[k] ELSE keyring.store[k]]
            after == IF n < Len(KEYS) /\ removed /\ (n + 1) \in DOMAIN stored
                     THEN Without(stored, n + 1) ELSE stored
        IN  keyring' = [store |-> after, before |-> keyring.store,
                        op |-> "setup_credentials", absent_fails |-> FALSE,
                        result |-> Return(n = Len(KEYS))]
    /\ UNCHANGED NonKeyringVars

\* get_credentials, lines 173-186
GetCredentials ==
    /\ keyring' = [store |-> keyring.store, before |-> keyring.store,
                   op |-> "get_credentials", absent_fails |-> FALSE,
                   result |-> IF DOMAIN keyring.store = 1..Len(KEYS)
                              THEN Return(Some(keyring.store)) ELSE Return(None)]
    /\ UNCHANGED NonKeyringVars

\* clear_credentials, lines 201-210
ClearCredentials ==
    /\ \E absent_fails \in BOOLEAN :
        LET c == ClearKeys(keyring.store, 1, TRUE, absent_fails)
        IN  keyring' = [store |-> c.store, before |-> keyring.store,
                        op |-> "clear_credentials", absent_fails |-> absent_fails,
                        result |-> Return(c.ok)]
    /\ UNCHANGED NonKeyringVars

NextCredentials ==
    \/ SetupCredentials
    \/ GetCredentials
    \/ ClearCredentials

SpecCredentials == Init /\ [][NextCredentials]_vars

\* ---------------------------------------------------------------- browser

\* fetcher.py: _get_browser and close_browser run as asyncio tasks and share
\* the module globals _playwright and _browser. Playwright instances and
\* browsers are numbered in the order they were made. launched and handed
\* hold the browsers launched and the browsers returned to a caller since
\* close_browser was last called.

NonFetcherVars == <<auth_token, action_token, pc, op, args, articles, continuation,
                    result, log, answers, start, issued, calls, tasks, transport,
                    article, keyring, digest, setup>>

\* task t moves to position p, having got g
FetchStep(t, p, g) == [fetcher.tasks EXCEPT ![t].pc = p, ![t].got = g]

\* _get_browser, lines 18-24, up to the await of async_playwright().start(),
\* or to the return when a browser is there
GetBrowserCall(t) ==
    /\ fetcher.tasks[t].pc = "idle"
    /\ IF fetcher.browser = None
       THEN fetcher' = [fetcher EXCEPT
                            !.tasks = [fetcher.tasks EXCEPT ![t] =
                                [pc |-> "starting", op |-> "_get_browser", got |-> None]]]
       ELSE fetcher' = [fetcher EXCEPT
                            !.handed = fetcher.handed \cup {fetcher.browser[1]},
                            !.tasks = [fetcher.tasks EXCEPT ![t] =
                                [pc |-> "done", op |-> "_get_browser",
                                 got |-> fetcher.browser]]]
    /\ UNCHANGED NonFetcherVars

\* line 21: Playwright has started and is assigned; chromium.launch is awaited
PlaywrightStarted(t) ==
    /\ fetcher.tasks[t].pc = "starting"
    /\ fetcher' = [fetcher EXCEPT !.playwright = Some(fetcher.started + 1),
                                  !.started = fetcher.started + 1,
                                  !.tasks = FetchStep(t, "launching", None)]
    /\ UNCHANGED NonFetcherVars

\* lines 22-24: the browser is launched, assigned and returned
BrowserLaunched(t) ==
    /\ fetcher.tasks[t].pc = "launching"
    /\ LET new == fetcher.made + 1
       IN  fetcher' = [fetcher EXCEPT !.browser = Some(new),
                                      !.made = new,
                                      !.launched = fetcher.launched \cup {new},
                                      !.handed = fetcher.handed \cup {new},
                                      !.tasks = FetchStep(t, "done", Some(new))]
    /\ UNCHANGED NonFetcherVars

\* close_browser, lines 31-37 up to its first await, or to its return
CloseBrowserCall(t) ==
    /\ fetcher.tasks[t].pc = "idle"
    /\ LET p == IF fetcher.browser # None THEN "closing"
                ELSE IF fetcher.playwright # None THEN "stopping"
                ELSE "done"
       IN  fetcher' = [fetcher EXCEPT
                            !.launched = {},
                            !.handed = {},
                            !.tasks = [fetcher.tasks EXCEPT ![t] =
                                [pc |-> p, op |-> "close_browser", got |-> None]]]
    /\ UNCHANGED NonFetcherVars

\* lines 32-36: the browser is closed, _browser cleared; Playwright is
\* stopped next if there is one
BrowserClosed(t) ==
    /\ fetcher.tasks[t].pc = "closing"
    /\ fetcher' = [fetcher EXCEPT
                        !.browser = None,
                        !.tasks = FetchStep(t, IF fetcher.playwright # None
                                               THEN "stopping" ELSE "done", None)]
    /\ UNCHANGED NonFetcherVars

\* lines 36-37: Playwright is stopped, _playwright cleared
PlaywrightStopped(t) ==
    /\ fetcher.tasks[t].pc = "stopping"
    /\ fetcher' = [fetcher EXCEPT !.playwright = None,
                                  !.tasks = FetchStep(t, "done", None)]
    /\ UNCHANGED NonFetcherVars

NextBrowser ==
    \E t \in 1..MaxFetches :
        \/ GetBrowserCall(t)
        \/ PlaywrightStarted(t)
        \/ BrowserLaunched(t)
        \/ CloseBrowserCall(t)
        \/ BrowserClosed(t)
        \/ PlaywrightStopped(t)

SpecBrowser == Init /\ [][NextBrowser]_vars

\* ----------------------------------------------------------------- digest

\* run.py, _cmd_unread_digest, from line 139 on: the loop over the articles
\* get_unread_articles returned. An article is modelled by its link: None,
\* the empty string or a URL. result holds the content_source of each
\* article_data appended.

NonDigestVars == <<auth_token, action_token, pc, op, args, articles, continuation,
                   result, log, answers, start, issued, calls, tasks, transport,
                   article, keyring, fetcher, setup>>

\* the links of the articles
DigestLinks == {None, Some(""), Some("https://a.example/1")}

\* line 162: `if a.link`
HasLink(link) == link # None /\ link[1] # ""

\* fetch_full_article, fetcher.py lines 131-211, as line 164 sees it: a
\* result with the method used, an error result, or an exception
Fetched(dynamic) ==
    { [kind |-> "content", method |-> IF dynamic THEN "dynamic" ELSE "static"],
      [kind |-> "error", method |-> "none"],
      [kind |-> "raise", method |-> "none"] }

UpdateStatsSkipNoLink(stats, link, fetched) ==
    IF ~HasLink(link) THEN stats
    ELSE IF fetched.kind \in {"raise", "error"}
    THEN [stats EXCEPT !.failed = stats.failed + 1]
    ELSE [stats EXCEPT !.success = stats.success + 1,
                       !.dynamic_used = IF fetched.method = "dynamic"
                                        THEN stats.dynamic_used + 1
                                        ELSE stats.dynamic_used]

\* lines 162-198: the counters after one article
UpdateStats(stats, link, fetched) ==
    IF ~HasLink(link) THEN [stats EXCEPT !.failed = stats.failed + 1]
    ELSE IF fetched.kind \in {"raise", "error"}
    THEN [stats EXCEPT !.failed = stats.failed + 1]
    ELSE [stats EXCEPT !.success = stats.success + 1,
                       !.dynamic_used = IF fetched.method = "dynamic"
                                        THEN stats.dynamic_used + 1
                                        ELSE stats.dynamic_used]

\* lines 162-198: content_source of the article_data
ContentSource(link, fetched) ==
    IF HasLink(link) /\ fetched.kind = "content" THEN "fetched" ELSE "rss"

\* lines 137-149: the articles arrive; none: the empty digest is output
DigestArticles ==
    /\ digest.pc = "idle"
    /\ \E n \in 0..MaxArticles, dynamic \in BOOLEAN :
        \E links \in [1..n -> DigestLinks] :
            digest' = IF links = <<>>
                      THEN [pc |-> "output", links |-> links, dynamic |-> dynamic,
                            stats |-> None, result |-> <<>>, count |-> 0]
                      ELSE [pc |-> "loop", links |-> links, dynamic |-> dynamic,
                            stats |-> Some([total |-> Len(links), success |-> 0,
                                            failed |-> 0, dynamic_used |-> 0]),
                            result |-> <<>>, count |-> 0]
    /\ UNCHANGED NonDigestVars

\* lines 151-204: one turn of the loop
DigestArticle ==
    /\ digest.pc = "loop"
    /\ Len(digest.result) < Len(digest.links)
    /\ LET link == digest.links[Len(digest.result) + 1]
       IN  \E fetched \in Fetched(digest.dynamic) :
               digest' = [digest EXCEPT
                            !.stats = Some(UpdateStats(digest.stats[1], link, fetched)),
                            !.result = Append(digest.result, ContentSource(link, fetched))]
    /\ UNCHANGED NonDigestVars

\* lines 209-214: the digest is output
DigestOutput ==
    /\ digest.pc = "loop"
    /\ Len(digest.result) = Len(digest.links)
    /\ digest' = [digest EXCEPT !.pc = "output", !.count = Len(digest.result)]
    /\ UNCHANGED NonDigestVars

NextDigest ==
    \/ DigestArticles
    \/ DigestArticle
    \/ DigestOutput

SpecDigest == Init /\ [][NextDigest]_vars

\* ------------------------------------------------------------------ setup

\* run.py, cmd_setup without --clear, lines 62-100. entered holds the values
\* read so far, stripped; client the values the test connection was made
\* with; saved the values passed to setup_credentials; written the keys
\* (indices of KEYS) it stored; code the code of the JSON output.

NonSetupVars == <<auth_token, action_token, pc, op, args, articles, continuation,
                  result, log, answers, start, issued, calls, tasks, transport,
                  article, keyring, fetcher, digest>>

\* what the user types at a prompt
Inputs == {<<>>, <<" ">>, <<"a">>, <<" ", "b", " ">>}

OutputErrorReturns(s, code, next) == [s EXCEPT !.pc = next, !.code = code]

\* output_error, lines 35-38: the error is printed and sys.exit(1) ends the
\* command, whatever would have come next
OutputError(s, code, next) == [s EXCEPT !.pc = "exit", !.code = code]

\* lines 62-72: a prompt is answered with typed; an empty value is an error
Prompted(typed, next) ==
    LET s == [setup EXCEPT !.entered = Append(setup.entered, Strip(typed))]
    IN  IF Strip(typed) = <<>>
        THEN OutputError(s, "INVALID_INPUT", next)
        ELSE [s EXCEPT !.pc = next]

\* lines 62-64
EnterApiUrl ==
    /\ setup.pc = "api_url"
    /\ \E typed \in Inputs : setup' = Prompted(typed, "username")
    /\ UNCHANGED NonSetupVars

\* lines 66-68
EnterUsername ==
    /\ setup.pc = "username"
    /\ \E typed \in Inputs : setup' = Prompted(typed, "password")
    /\ UNCHANGED NonSetupVars

\* lines 70-72
EnterPassword ==
    /\ setup.pc = "password"
    /\ \E typed \in Inputs : setup' = Prompted(typed, "authenticate")
    /\ UNCHANGED NonSetupVars

\* lines 79-80 and 87-90: the client is made with the entered values and
\* authenticate is answered
TestAuthenticate ==
    /\ setup.pc = "authenticate"
    /\ \E r \in Responses(LoginBodies) :
        LET s == [setup EXCEPT !.client = Some(setup.entered), !.login = Some(r)]
        IN  setup' = IF LoginError(r) # None
                     THEN OutputError(s, "AUTH_FAILED", "save")
                     ELSE [s EXCEPT !.pc = "subscriptions"]
    /\ UNCHANGED NonSetupVars

\* lines 81-90: get_subscriptions is answered
TestSubscriptions ==
    /\ setup.pc = "subscriptions"
    /\ \E r \in Responses(SubscriptionBodies) :
        LET s == [setup EXCEPT !.subscriptions = Some(r)]
        IN  setup' = IF SubscriptionsResult(r).kind = "raise"
                     THEN OutputError(s, "CONNECTION_FAILED", "save")
                     ELSE [s EXCEPT !.pc = "save"]
    /\ UNCHANGED NonSetupVars

\* lines 93-100: setup_credentials stores the first n keys (n = 3: all)
SaveCredentials ==
    /\ setup.pc = "save"
    /\ \E n \in 0..Len(KEYS) :
        LET s == [setup EXCEPT !.saved = Some(setup.entered), !.written = 1..n]
        IN  setup' = IF n = Len(KEYS)
                     THEN [s EXCEPT !.pc = "exit", !.code = "success"]
                     ELSE OutputError(s, "SAVE_FAILED", "exit")
    /\ UNCHANGED NonSetupVars

NextSetup ==
    \/ EnterApiUrl
    \/ EnterUsername
    \/ EnterPassword
    \/ TestAuthenticate
    \/ TestSubscriptions
    \/ SaveCredentials

SpecSetup == Init /\ [][NextSetup]_vars

\* ------------------------------------------------------------------ claims

InUnreadArticles == op = "get_unread_articles"

\* answer i of the running call is a well-formed stream page
IsPage(i) ==
    /\ answers[i].for = "stream"
    /\ answers[i].kind = "response"
    /\ answers[i].status \in Status2xx
    /\ answers[i].body.valid

\* page i has fewer items than request i asked for
ShortPage(i) == IsPage(i) /\ Len(answers[i].body.items) < log[i].n

\* page i carries no continuation token (null or the empty string)
TokenlessPage(i) ==
    IsPage(i) /\ answers[i].body.continuation \in {None, Some(<<>>)}

\* C1: get_unread_articles finishes after finitely many page requests,
\* whatever the server answers: limit - len(articles) is a natural number
\* whenever a page is awaited, and each page that is followed by another
\* request makes it strictly smaller.
C1_PaginationTerminates ==
    [][(InUnreadArticles /\ pc = "stream" /\ pc' = "stream")
          => /\ args.limit - Len(articles') > 0
             /\ args.limit - Len(articles') < args.limit - Len(articles)]_vars

\* a call that got a zero-item page with a continuation token has finished
C1_Witness ==
    /\ InUnreadArticles
    /\ pc = "done"
    /\ Len(answers) = 2
    /\ IsPage(1)
    /\ IsPage(2)
    /\ answers[2].body.items = <<>>
    /\ Truthy(answers[2].body.continuation)
    /\ answers[1].body.continuation = answers[2].body.continuation

\* C2: for limit > 0, get_unread_articles returns at most limit articles,
\* also when a page holds more items than were asked for.
C2_AtMostLimit ==
    (InUnreadArticles /\ pc = "done" /\ result.kind = "return" /\ args.limit > 0)
        => Len(result.value) <= args.limit

\* the last page overshot: more articles were collected than the limit
C2_Witness ==
    /\ InUnreadArticles
    /\ pc = "done"
    /\ result.kind = "return"
    /\ args.limit > 0
    /\ Len(articles) > args.limit

\* the login, if the call needed one, succeeded, and every stream-contents
\* request was answered with a page of exactly the number of items asked for
\* and a continuation token
FullPagesOnly ==
    \A i \in 1..Len(answers) :
        IF answers[i].for = "login"
        THEN answers[i].kind = "response" /\ answers[i].status \in Status2xx
                /\ ParseAuth(answers[i].body) # None
        ELSE /\ IsPage(i)
             /\ Len(answers[i].body.items) = log[i].n
             /\ Truthy(answers[i].body.continuation)

\* C3: against a server that answers every page request with exactly the
\* requested number of items and a continuation token, get_unread_articles
\* returns exactly limit articles, for every limit > 0.
C3_ExactlyLimit ==
    (InUnreadArticles /\ pc = "done" /\ args.limit > 0 /\ FullPagesOnly)
        => result.kind = "return" /\ Len(result.value) = args.limit

\* a limit above two pages was served in full pages
C3_Witness ==
    /\ InUnreadArticles
    /\ pc = "done"
    /\ args.limit > 2 * PageCap
    /\ FullPagesOnly
    /\ Len(Received(answers)) = args.limit

\* C4: once a page has fewer items than were asked for (zero included), with
\* or without a continuation token, get_unread_articles sends no further
\* stream-contents request: the short page answers the last request sent.
C4_ShortPageStops ==
    InUnreadArticles =>
        \A i \in 1..Len(answers) : ShortPage(i) => Len(log) = i /\ pc = "done"

\* a short, non-empty page with a continuation token ended the call
C4_Witness ==
    /\ InUnreadArticles
    /\ pc = "done"
    /\ Len(answers) >= 1
    /\ ShortPage(Len(answers))
    /\ answers[Len(answers)].body.items # <<>>
    /\ Truthy(answers[Len(answers)].body.continuation)

\* C5: once a page carries no continuation token, get_unread_articles sends
\* no further stream-contents request, even if the page was full and fewer
\* than limit articles have been collected.
C5_NoTokenStops ==
    InUnreadArticles =>
        \A i \in 1..Len(answers) : TokenlessPage(i) => Len(log) = i /\ pc = "done"

\* a full page without a token ended the call short of the limit
C5_Witness ==
    /\ InUnreadArticles
    /\ pc = "done"
    /\ Len(answers) >= 1
    /\ TokenlessPage(Len(answers))
    /\ Len(answers[Len(answers)].body.items) = log[Len(log)].n
    /\ Len(articles) < args.limit

IsLogin(q) == q.ep = "accounts/ClientLogin"

\* the original statement of C6: authenticating again while a (non-empty)
\* token is cached sends no login request.
C6_NoLoginWhileCached == ~(pc = "login" /\ Truthy(auth_token))

\* C6 (amended): authenticating again through _ensure_authenticated, as every
\* endpoint method does, sends no login request while a token is cached: then
\* only an explicit authenticate() call sends one, and it sends one each time.
C6_OnlyExplicitAuthenticateLogsInAgain ==
    [][/\ (auth_token # None /\ Len(log') > Len(log) /\ IsLogin(log'[Len(log')]))
            => op' = "authenticate"
       /\ (pc = "idle" /\ op' = "authenticate")
            => Len(log') = 1 /\ IsLogin(log'[1])]_vars

\* an endpoint method ran to its end on a client that had a token cached
C6_Witness ==
    /\ op = "get_subscriptions"
    /\ start.auth_token # None
    /\ pc = "done"
    /\ result.kind = "return"

\* the methods of C7, _edit_tag and its wrappers with a non-empty ID list
InEndpointMethod ==
    \/ op \in {"get_token", "get_subscriptions", "get_unread_counts",
               "get_stream_contents", "get_article_by_id"}
    \/ op \in EditOps /\ args.article_ids # <<>>

\* C7: an endpoint method sends no login request if an auth token is cached
\* when it is called; if none is cached it sends exactly one, before any
\* other request.
C7_LoginGuard ==
    InEndpointMethod =>
        IF start.auth_token # None
        THEN \A i \in 1..Len(log) : ~IsLogin(log[i])
        ELSE /\ Len(log) >= 1
             /\ IsLogin(log[1])
             /\ \A i \in 2..Len(log) : ~IsLogin(log[i])

\* _edit_tag, called without a cached token, sent login, token and edit-tag
C7_Witness ==
    /\ op \in EditOps
    /\ start.auth_token = None
    /\ pc = "done"
    /\ Len(log) = 3
    /\ log[3].ep = "reader/api/0/edit-tag"

\* text t is text `body` without the whitespace at its two ends
TrimsTo(body, t) ==
    /\ t = <<>> \/ (t[1] \notin Whitespace /\ t[Len(t)] \notin Whitespace)
    /\ \E i \in 0..Len(body) :
          /\ i + Len(t) <= Len(body)
          /\ SubSeq(body, i + 1, i + Len(t)) = t
          /\ \A k \in 1..Len(body) :
                (k <= i \/ k > i + Len(t)) => body[k] \in Whitespace

\* C8: every edit-tag POST directly follows, in the same call, a GET of the
\* token endpoint; its first parameter is T with the trimmed body of that
\* GET's answer, which is none of the tokens issued before the call began.
C8_FreshActionToken ==
    \A i \in 1..Len(log) :
        log[i].ep = "reader/api/0/edit-tag" =>
            /\ i > 1
            /\ log[i - 1].ep = "reader/api/0/token"
            /\ log[i - 1].method = "GET"
            /\ answers[i - 1].kind = "response"
            /\ answers[i - 1].status \in Status2xx
            /\ log[i].form[1][1] = "T"
            /\ TrimsTo(answers[i - 1].body, log[i].form[1][2])
            /\ \A k \in 1..start.issued : log[i].form[1][2] # Tok(k)

\* an edit-tag POST was sent by a client that held an earlier action token
C8_Witness ==
    /\ op \in {"mark_as_read", "mark_as_starred"}
    /\ start.action_token # None
    /\ start.issued >= 1
    /\ pc = "done"
    /\ Len(log) >= 2
    /\ log[Len(log)].ep = "reader/api/0/edit-tag"

\* C9: _edit_tag with an empty ID list sends no request, leaves both cached
\* tokens as they were and returns True, in any session state.
C9_EmptyListNoOp ==
    (op \in EditOps /\ args.article_ids = <<>>) =>
        /\ pc = "done"
        /\ log = <<>>
        /\ answers = <<>>
        /\ result.kind = "return"
        /\ result.value = TRUE
        /\ auth_token = start.auth_token
        /\ action_token = start.action_token

\* mark_as_starred([]) returned on a client holding both tokens
C9_Witness ==
    /\ op = "mark_as_starred"
    /\ args.article_ids = <<>>
    /\ pc = "done"
    /\ auth_token # None
    /\ action_token # None

\* C10: for a non-empty ID list, _edit_tag returns True exactly when the
\* edit-tag answer is 2xx and its body trims to OK, False for a 2xx answer
\* with any other body, and raises APIError with the status code for a
\* non-2xx answer; the one outcome stands for all the IDs.
C10_EditTagOutcome ==
    (op \in EditOps /\ pc = "done" /\ Len(answers) >= 1
     /\ answers[Len(answers)].for = "edit-tag"
     /\ answers[Len(answers)].kind = "response")
        => LET r == answers[Len(answers)]
           IN  IF r.status \in 200..299
               THEN /\ result.kind = "return"
                    /\ result.value \in BOOLEAN
                    /\ result.value <=> TrimsTo(r.body, OK)
               ELSE /\ result.kind = "raise"
                    /\ result.error = "APIError"
                    /\ result.status_code = Some(r.status)

\* mark_as_read of two IDs returned True on the body "OK\n"
C10_Witness ==
    /\ op = "mark_as_read"
    /\ Len(args.article_ids) = 2
    /\ pc = "done"
    /\ answers[Len(answers)].for = "edit-tag"
    /\ answers[Len(answers)].body = OK \o <<"\n">>
    /\ result.kind = "return"
    /\ result.value = TRUE
    /\ Len(log[Len(log)].form) = 4
\* the last answer the running call received
LastAnswer == answers[Len(answers)]

\* C11: when the subscription-list endpoint answers 401 or 403,
\* get_subscriptions raises APIError with that status code, and not
\* AuthenticationError.
C11_SubscriptionsDenied ==
    (op = "get_subscriptions" /\ pc = "done" /\ LastAnswer.for = "subscriptions"
     /\ LastAnswer.kind = "response" /\ LastAnswer.status \in {401, 403})
        => /\ result.kind = "raise"
           /\ result.error = "APIError"
           /\ result.error # "AuthenticationError"
           /\ result.status_code = Some(LastAnswer.status)

\* get_subscriptions ended on a 403 from the subscription-list endpoint
C11_Witness ==
    /\ op = "get_subscriptions"
    /\ pc = "done"
    /\ Len(log) = 2
    /\ LastAnswer.for = "subscriptions"
    /\ LastAnswer.status = 403
\* answer i of the running call is a non-2xx response to an endpoint request
\* of a call that began with an auth token cached
FailedWithCachedToken(i) ==
    /\ start.auth_token # None
    /\ answers[i].for # "login"
    /\ answers[i].kind = "response"
    /\ answers[i].status \notin 200..299

\* the call ended with answer i, sent no login request, and asked the
\* endpoint of request i once (get_unread_articles: once per page)
NotRetried(i) ==
    /\ pc = "done"
    /\ Len(log) = i
    /\ \A k \in 1..Len(log) : ~IsLogin(log[k])
    /\ InUnreadArticles \/ \A k \in 1..Len(log) : log[k].ep = log[i].ep => k = i

RaisedAPIError(status) ==
    /\ result.kind = "raise"
    /\ result.error = "APIError"
    /\ result.status_code = Some(status)

\* the original statement of C12: every endpoint call that gets a non-2xx
\* response with a cached token is not retried and reports that failure to
\* its caller.
C12_FailureReported ==
    \A i \in 1..Len(answers) :
        FailedWithCachedToken(i) => NotRetried(i) /\ RaisedAPIError(answers[i].status)

\* C12 (amended): a non-2xx response to an endpoint call made with a cached
\* token ends the call: no login request, no second request.  The call raises
\* APIError with that status, except get_article_by_id, which returns None.
C12_NoRetryAfterFailure ==
    \A i \in 1..Len(answers) :
        FailedWithCachedToken(i) =>
            /\ NotRetried(i)
            /\ IF op = "get_article_by_id"
               THEN result.kind = "return" /\ result.value = None
               ELSE RaisedAPIError(answers[i].status)

\* get_stream_contents got a 401 with a token cached
C12_Witness ==
    /\ op = "get_stream_contents"
    /\ pc = "done"
    /\ Len(answers) = 1
    /\ FailedWithCachedToken(1)
    /\ answers[1].status = 401
\* C13: a transport failure surfaces as the same kind of error as an
\* HTTP-status failure of the same request: AuthenticationError for the login
\* request, APIError without a status code for the token, subscription-list,
\* unread-count, stream-contents and edit-tag requests.
C13_TransportSameKind ==
    (pc = "done" /\ Len(answers) >= 1 /\ LastAnswer.kind = "transport"
     /\ LastAnswer.for # "article")
        => /\ result.kind = "raise"
           /\ IF LastAnswer.for = "login"
              THEN result.error = "AuthenticationError"
              ELSE result.error = "APIError" /\ result.status_code = None
\* C14: with an auth token cached, get_article_by_id returns the first
\* element of the answer's items when the answer is 2xx and items is not
\* empty; it returns None, and does not raise, when items is empty or
\* missing or the answer is non-2xx.
C14_ArticleLookup ==
    (op = "get_article_by_id" /\ pc = "done" /\ start.auth_token # None
     /\ LastAnswer.kind = "response"
     /\ (LastAnswer.status \in 200..299 => LastAnswer.body.valid))
        => /\ result.kind = "return"
           /\ IF /\ LastAnswer.status \in 200..299
                 /\ LastAnswer.body.items # None
                 /\ Len(LastAnswer.body.items[1]) >= 1
              THEN result.value = Some(Head(LastAnswer.body.items[1]))
              ELSE result.value = None

\* the first of two items was returned
C14_Witness ==
    /\ op = "get_article_by_id"
    /\ pc = "done"
    /\ start.auth_token # None
    /\ LastAnswer.kind = "response"
    /\ LastAnswer.status = 200
    /\ LastAnswer.body.items = Some(<<7, 8>>)
    /\ result = Return(Some(7))
\* the line begins with "Auth=": its key, the text before its first "=", is Auth
IsAuthLine(line) ==
    Len(line) >= 5 /\ SubSeq(line, 1, 5) = <<"A", "u", "t", "h", "=">>

\* C15: when the login answer is 2xx and a line of its body has the key
\* Auth, authenticate returns everything that follows the first "=" of that
\* line (of the last such line, if there are several), and the cached auth
\* token is the returned value.
C15_AuthValueReturned ==
    (op = "authenticate" /\ pc = "done" /\ LastAnswer.kind = "response"
     /\ LastAnswer.status \in 200..299)
        => LET lines == Split(Strip(LastAnswer.body), "\n")
           IN  \A j \in 1..Len(lines) :
                   (IsAuthLine(lines[j])
                    /\ \A k \in (j + 1)..Len(lines) : ~IsAuthLine(lines[k]))
                       => /\ result.kind = "return"
                          /\ result.value = SubSeq(lines[j], 6, Len(lines[j]))
                          /\ auth_token = Some(result.value)

\* the body "Auth=a=b" gave the token "a=b"
C15_Witness ==
    /\ op = "authenticate"
    /\ pc = "done"
    /\ LastAnswer.body = <<"A", "u", "t", "h", "=", "a", "=", "b">>
    /\ result = Return(<<"a", "=", "b">>)
    /\ auth_token = Some(<<"a", "=", "b">>)
\* the login answer is a transport failure, a non-2xx response, or a 2xx
\* response none of whose lines has the key Auth
LoginFailed(a) ==
    \/ a.kind = "transport"
    \/ a.status \notin 200..299
    \/ LET lines == Split(Strip(a.body), "\n")
       IN  \A j \in 1..Len(lines) : ~IsAuthLine(lines[j])

\* C16: a failing authenticate call raises AuthenticationError, never
\* APIError: on a non-2xx login answer, on a transport failure, and on a 2xx
\* answer without the key Auth.
C16_LoginFailureKind ==
    (op = "authenticate" /\ pc = "done")
        => /\ LoginFailed(LastAnswer) =>
                result.kind = "raise" /\ result.error = "AuthenticationError"
           /\ result.kind = "raise" =>
                result.error = "AuthenticationError" /\ LoginFailed(LastAnswer)

\* a 2xx login answer without Auth made authenticate raise
C16_Witness ==
    /\ op = "authenticate"
    /\ pc = "done"
    /\ LastAnswer.kind = "response"
    /\ LastAnswer.status = 200
    /\ LastAnswer.body = <<"S","I","D","=","a","\n","L","S","I","D","=","b","\n">>
    /\ result.kind = "raise"
\* the header value the client is to send for token value t
GoogleLogin(t) ==
    <<"G","o","o","g","l","e","L","o","g","i","n"," ","a","u","t","h","=">> \o t

\* C17: every request to an endpoint other than the login endpoint is sent
\* while an auth token is cached and carries the header
\* Authorization: GoogleLogin auth=<that token>, whatever value a successful
\* login produced, the empty one included. The token cached when request k
\* of the running call was sent is the current one: a call changes it only
\* before its first non-login request.
C17_AuthorizationOnEveryRequest ==
    \A k \in 1..Len(log) :
        ~IsLogin(log[k]) =>
            /\ auth_token # None
            /\ log[k].auth = Some(GoogleLogin(auth_token[1]))
\* C20: in every step of an endpoint operation other than an explicit
\* authenticate() call, a cached auth token keeps its value and is not
\* cleared, whether the operation succeeds or fails.
C20_TokenSetOnce ==
    [][(auth_token # None /\ op' # "authenticate") => auth_token' = auth_token]_vars

\* an endpoint call that began with a cached token failed, and the token it
\* began with is still the cached one
C20_Witness ==
    /\ pc = "done"
    /\ op \notin {"authenticate", "none"}
    /\ start.auth_token # None
    /\ Len(log) >= 1
    /\ result.kind = "raise"
    /\ auth_token = start.auth_token
\* the login requests sent so far
Logins == {k \in 1..Len(log) : IsLogin(log[k])}

\* the tasks that have called their method
Started == {t \in 1..MaxTasks : tasks[t].pc # "idle"}

\* C18: when two or more endpoint operations run concurrently on a client
\* that had no cached auth token, exactly one login request is sent in total.
C18_OneLoginInTotal ==
    Cardinality(Started) >= 2 => Cardinality(Logins) = 1
\* the last event was a scope exit
AfterAExit ==
    /\ transport.events # <<>>
    /\ transport.events[Len(transport.events)] \in {"aexit", "aexit_exception"}

\* C19: every transport the client acquired, at scope entry or lazily, is
\* released when the scope is left, normally or by an exception: after
\* __aexit__ none of them is open, and none is replaced while open (the only
\* transport that can be open is the one self._client holds).
C19_TransportsReleased ==
    /\ AfterAExit => transport.open = {}
    /\ transport.open \subseteq
            (IF transport.client = None THEN {} ELSE {transport.client[1]})
\* C21: the link of an article is the href of its first canonical entry when
\* canonical is non-empty, also when that entry has no href (alternate is
\* not consulted); otherwise the href of its first alternate entry when
\* alternate is non-empty; otherwise absent.
C21_LinkDerivation ==
    article.link # NoResult =>
        /\ article.link.kind = "return"
        /\ article.canonical # <<>> => article.link.value = article.canonical[1]
        /\ (article.canonical = <<>> /\ article.alternate # <<>>)
                => article.link.value = article.alternate[1]
        /\ (article.canonical = <<>> /\ article.alternate = <<>>)
                => article.link.value = None

\* the first canonical entry has no href, the first alternate entry has one,
\* and the link read is absent
C21_Witness ==
    /\ article.link = Return(None)
    /\ article.canonical # <<>>
    /\ article.canonical[1] = None
    /\ article.alternate # <<>>
    /\ article.alternate[1] # None
\* C22: clear_credentials clears all stored credentials: whatever subset of
\* the three keys was present, where deleting an absent key reports failure,
\* no key remains in the store after it returns, and it returns True only
\* if all were cleared.
C22_AllCleared ==
    (keyring.op = "clear_credentials" /\ keyring.absent_fails)
        => /\ keyring.store = <<>>
           /\ keyring.result = Return(TRUE) => keyring.store = <<>>
\* request k of the running call is the first one it sent to the
\* stream-contents endpoint
FirstStreamRequest(k) == ~IsLogin(log[k]) /\ (k = 1 \/ IsLogin(log[k - 1]))

\* C23: in get_unread_articles the first stream-contents request carries no
\* continuation parameter, every later one carries exactly the continuation
\* token of the page that answered the request before it, and a request is
\* sent only when every earlier one has been answered.
C23_ContinuationCarried ==
    InUnreadArticles =>
        /\ Len(log) - Len(answers) \in {0, 1}
        /\ \A k \in 1..Len(log) :
            ~IsLogin(log[k]) =>
                IF FirstStreamRequest(k)
                THEN log[k].c = None
                ELSE /\ IsPage(k - 1)
                     /\ Truthy(answers[k - 1].body.continuation)
                     /\ log[k].c = answers[k - 1].body.continuation

\* a call sent three page requests, the second and the third with the two
\* different tokens of the pages before them
C23_Witness ==
    /\ InUnreadArticles
    /\ Len(log) = 3
    /\ ~IsLogin(log[1])
    /\ log[1].c = None
    /\ log[2].c = Some(<<"c", "1">>)
    /\ log[3].c = Some(<<"c", "2">>)
\* the number of articles collected from the pages that answered the
\* requests before request k
Accumulated(k) == Len(Received(SubSeq(answers, 1, k - 1)))

\* C24: every page request of get_unread_articles(limit) asks for
\* min(limit - accumulated, 100) items, accumulated being the number of
\* articles collected so far; so it asks for at least 1 and at most 100.
C24_PageSize ==
    InUnreadArticles =>
        \A k \in 1..Len(log) :
            ~IsLogin(log[k]) =>
                /\ log[k].n = Min(args.limit - Accumulated(k), PageCap)
                /\ 1 <= log[k].n
                /\ log[k].n <= PageCap

\* a call asked for a full page first and, 100 articles later, for the one
\* article still missing
C24_Witness ==
    /\ InUnreadArticles
    /\ args.limit = PageCap + 1
    /\ Len(log) = 2
    /\ ~IsLogin(log[1])
    /\ log[1].n = PageCap
    /\ log[2].n = 1
IsEditTag(q) == q.ep = "reader/api/0/edit-tag"

\* the pairs of a form after its T pair and its n i pairs
TagPairs(form, n) == SubSeq(form, n + 2, Len(form))

\* the pairs a tag contributes under key: none for an absent or empty tag
TagPair(key, tag) == IF tag \in {None, Some(<<>>)} THEN <<>> ELSE <<<<key, tag[1]>>>>

\* C25: the body of the edit-tag request is T=<action token> first, then one
\* i=<id> pair per input ID in input order, duplicates kept, then at most one
\* a=<addTag>, then at most one r=<removeTag>; mark_as_read sends a=<read
\* tag> and no r, mark_as_starred sends a=<starred tag> and no r.
C25_FormBody ==
    \A k \in 1..Len(log) :
        IsEditTag(log[k]) =>
            LET form == log[k].form
                ids == args.article_ids
                n == Len(ids)
            IN  /\ Len(form) >= n + 1
                /\ form[1] = <<"T", action_token[1]>>
                /\ \A j \in 1..n : form[1 + j] = <<"i", ids[j]>>
                /\ TagPairs(form, n) = TagPair("a", args.add_tag) \o TagPair("r", args.remove_tag)
                /\ Len(TagPairs(form, n)) <= 2
                /\ op = "mark_as_read" => TagPairs(form, n) = <<<<"a", STATE_READ>>>>
                /\ op = "mark_as_starred" => TagPairs(form, n) = <<<<"a", STATE_STARRED>>>>

\* _edit_tag sent the same ID twice, with a tag to add and a tag to remove
C25_Witness ==
    /\ op = "_edit_tag"
    /\ Len(log) >= 1
    /\ IsEditTag(log[Len(log)])
    /\ Len(args.article_ids) = 2
    /\ args.article_ids[1] = args.article_ids[2]
    /\ Len(log[Len(log)].form) = 5
\* answer i of the running call is a non-2xx response of the token endpoint
TokenRefused(i) ==
    /\ answers[i].for = "token"
    /\ answers[i].kind = "response"
    /\ answers[i].status \notin 200..299

\* C26: when the token endpoint answers non-2xx during _edit_tag, the call
\* raises APIError carrying that status code and sends no edit-tag POST.
C26_NoEditWithoutToken ==
    op \in EditOps =>
        \A i \in 1..Len(answers) :
            TokenRefused(i) =>
                /\ pc = "done"
                /\ result = Raise("APIError", Some(answers[i].status))
                /\ \A k \in 1..Len(log) : ~IsEditTag(log[k])

\* mark_as_read on an authenticated client was refused the action token
C26_Witness ==
    /\ op = "mark_as_read"
    /\ pc = "done"
    /\ start.auth_token # None
    /\ Len(answers) = 1
    /\ TokenRefused(1)
    /\ answers[1].status = 403
\* C27: the browser is a singleton: under every interleaving of concurrent
\* _get_browser calls, at most one browser is launched between two
\* close_browser calls and every caller gets the same instance.
C27_BrowserSingleton ==
    /\ Cardinality(fetcher.launched) <= 1
    /\ Cardinality(fetcher.handed) <= 1
\* C28: a failed authenticate call (non-2xx, transport failure or missing
\* Auth key) leaves the session state as it was: the cached auth token and
\* the action token keep the values they had before the call.
C28_FailedLoginKeepsSession ==
    (pc = "done" /\ Len(answers) >= 1 /\ LastAnswer.for = "login" /\ LoginFailed(LastAnswer))
        => /\ result.kind = "raise"
           /\ auth_token = start.auth_token
           /\ action_token = start.action_token

\* a re-authentication failed and the token of the first one is still cached
C28_Witness ==
    /\ op = "authenticate"
    /\ pc = "done"
    /\ result.kind = "raise"
    /\ start.auth_token # None
    /\ auth_token = start.auth_token
\* the stream-contents requests the running call has sent
StreamRequests == {k \in 1..Len(log) : ~IsLogin(log[k])}

\* ceil(limit / 100)
PagesFor(limit) == (limit + PageCap - 1) \div PageCap

\* no request, no login, and the empty list for a limit that is not positive
NothingForNoLimit ==
    (InUnreadArticles /\ args.limit <= 0)
        => pc = "done" /\ log = <<>> /\ result = Return(<<>>)

\* the original statement of C29: for every limit > 0 and every server
\* behaviour get_unread_articles(limit) sends at least one and at most
\* ceil(limit / 100) stream-contents requests; for limit <= 0 it sends no
\* request at all and returns the empty list.
C29_RequestCount ==
    /\ (InUnreadArticles /\ args.limit > 0)
            => /\ Cardinality(StreamRequests) <= PagesFor(args.limit)
               /\ pc = "done" => Cardinality(StreamRequests) >= 1
    /\ NothingForNoLimit

\* C29 (amended): for every limit > 0 get_unread_articles(limit) sends at
\* most ceil(limit / 100) stream-contents requests, and at least one unless
\* the login it had to make first failed; for limit <= 0 it sends no request
\* at all and returns the empty list.
C29_RequestCountAfterLogin ==
    /\ (InUnreadArticles /\ args.limit > 0)
            => /\ Cardinality(StreamRequests) <= PagesFor(args.limit)
               /\ (pc = "done" /\ LastAnswer.for # "login")
                        => Cardinality(StreamRequests) >= 1
               /\ (pc = "done" /\ LastAnswer.for = "login")
                        => /\ start.auth_token = None
                           /\ LoginFailed(LastAnswer)
                           /\ StreamRequests = {}
    /\ NothingForNoLimit

\* a call with a limit above two pages has sent as many requests as the
\* limit allows
C29_Witness ==
    /\ InUnreadArticles
    /\ pc = "done"
    /\ args.limit > 2 * PageCap
    /\ Cardinality(StreamRequests) = PagesFor(args.limit)
\* C30: the list get_unread_articles(limit) returns is the first
\* min(limit, total) elements of the concatenation, in request order, of the
\* item lists of the pages received in that call: the client drops,
\* duplicates or reorders no article before the cut at limit.
C30_ReturnedPrefix ==
    (InUnreadArticles /\ pc = "done" /\ result.kind = "return")
        => LET all == Received(answers)
               n == Min(args.limit, Len(all))
           IN  /\ Len(result.value) = (IF n > 0 THEN n ELSE 0)
               /\ \A j \in 1..Len(result.value) : result.value[j] = all[j]

\* two pages were received and the second overshot the limit: the list
\* returned is cut
C30_Witness ==
    /\ InUnreadArticles
    /\ pc = "done"
    /\ result.kind = "return"
    /\ Len(answers) >= 2
    /\ IsPage(Len(answers) - 1)
    /\ IsPage(Len(answers))
    /\ Len(Received(answers)) > args.limit
    /\ Len(result.value) = args.limit
\* C31: in digest mode, after each article the counters satisfy success +
\* failed = articles processed so far and dynamic_used <= success, and at
\* the end success + failed = total = number of output articles: every
\* article is counted once, whether its fetch succeeds, returns an error
\* result, raises, or the article has no link.
C31_EveryArticleCounted ==
    digest.stats # None =>
        LET stats == digest.stats[1]
        IN  /\ stats.success + stats.failed = Len(digest.result)
            /\ stats.dynamic_used <= stats.success
            /\ digest.pc = "output" =>
                    /\ stats.success + stats.failed = stats.total
                    /\ stats.total = digest.count
                    /\ digest.count = Len(digest.links)

\* a digest of three articles is output: one without a link, one whose fetch
\* failed, one fetched with the browser
C31_Witness ==
    /\ digest.pc = "output"
    /\ digest.count = 3
    /\ \E i \in 1..Len(digest.links) : ~HasLink(digest.links[i])
    /\ digest.stats[1].failed = 2
    /\ digest.stats[1].success = 1
    /\ digest.stats[1].dynamic_used = 1
\* the test connection succeeded: authenticate and get_subscriptions both
\* returned without error
TestConnectionSucceeded ==
    /\ setup.login # None
    /\ ~LoginFailed(setup.login[1])
    /\ setup.subscriptions # None
    /\ setup.subscriptions[1].kind = "response"
    /\ setup.subscriptions[1].status \in 200..299
    /\ setup.subscriptions[1].body.valid

\* three values were entered and none is empty
AllEntered ==
    /\ Len(setup.entered) = Len(KEYS)
    /\ \A i \in 1..Len(setup.entered) : setup.entered[i] # <<>>

\* C32: cmd_setup (without --clear) writes credentials to the store only
\* after the test connection succeeded with the entered values; if
\* authenticate or get_subscriptions fails, or an entered value is empty, no
\* credential key is written.
C32_SaveOnlyAfterTest ==
    /\ (setup.written # {} \/ setup.saved # None)
            => /\ AllEntered
               /\ TestConnectionSucceeded
               /\ setup.client = Some(setup.entered)
               /\ setup.saved = Some(setup.entered)
    /\ (setup.pc = "exit" /\ ~(AllEntered /\ TestConnectionSucceeded))
            => setup.written = {} /\ setup.saved = None

\* the three keys were written after a successful test connection
C32_Witness ==
    /\ setup.pc = "exit"
    /\ setup.code = "success"
    /\ setup.written = 1..Len(KEYS)
    /\ TestConnectionSucceeded
====
